---------------------------- MODULE Spec2Model ----------------------------
(***************************************************************************)
(* The KV module of vault-manager (vaultmanager/modules/VaultManagerKV.py) *)
(* as a state machine: one invocation of VaultManagerKV.run on a pair of   *)
(* secret stores.  Strings are sequences of one-character strings, so that *)
(* str.split, str.join and "+" are computed, not assumed.                  *)
(*                                                                         *)
(* The store client (lib/VaultClient.py) and lib/utils.py are not part of  *)
(* the sources at hand: they are modelled from the specification (sections *)
(* 3, 4.1, 4.2 and 6).  os.environ["VAULT_ADDR"], which kv_delete reads    *)
(* for its log lines, is taken to be set.                                  *)
(***************************************************************************)
EXTENDS Integers, Sequences, FiniteSets, TLC

VARIABLES kwargs, vault, vault0, pc, idx, exported_kv, pos, calls, listed,
          log, err, count_dict, total_secrets, total_kv, grouped_duplicates,
          kv_tree, root_as_leaf

vars == <<kwargs, vault, vault0, pc, idx, exported_kv, pos, calls, listed,
          log, err, count_dict, total_secrets, total_kv, grouped_duplicates,
          kv_tree, root_as_leaf>>

(***************************************************************************)
(* Bounds of the model.                                                    *)
(***************************************************************************)
\* the longest list of roots given to --delete, --count, --find-duplicates
\* and --secrets-tree
MaxRoots == 2

(***************************************************************************)
(* Strings.                                                                *)
(***************************************************************************)
Range(s) == {s[i] : i \in DOMAIN s}

\* lst[n:] of Python
SliceFrom(lst, n) == SubSeq(lst, n + 1, Len(lst))

RECURSIVE SplitAcc(_, _, _)
SplitAcc(s, cur, acc) ==
    IF s = <<>> THEN Append(acc, cur)
    ELSE IF Head(s) = "/" THEN SplitAcc(Tail(s), <<>>, Append(acc, cur))
    ELSE SplitAcc(Tail(s), Append(cur, Head(s)), acc)

\* s.split('/') : "a/" gives ["a", ""], "" gives [""]
Split(s) == SplitAcc(s, <<>>, <<>>)

RECURSIVE Join(_)
\* "/".join(segs)
Join(segs) ==
    IF segs = <<>> THEN <<>>
    ELSE IF Len(segs) = 1 THEN segs[1]
    ELSE segs[1] \o <<"/">> \o Join(Tail(segs))

\* utils.list_to_string(logger, lst, separator="/")
list_to_string(lst) == Join(lst)

NonEmptySeg(seg) == seg # <<>>

\* the SecretPath of a string: its non-empty segments
Canon(s) == SelectSeq(Split(s), NonEmptySeg)

\* the canonical spelling of a path
Normalize(s) == Join(Canon(s))

\* segment-wise prefix containment of SecretPaths
IsPrefixSeg(r, p) == Len(r) <= Len(p) /\ SubSeq(p, 1, Len(r)) = r

\* every ordering of a finite set
SeqsOf(S) ==
    {s \in [1..Cardinality(S) -> S] :
        \A i, j \in 1..Cardinality(S) : i # j => s[i] # s[j]}

(***************************************************************************)
(* The universe: paths, documents, stores, arguments.                      *)
(***************************************************************************)
P_a == <<"a">>
P_ab == <<"a", "/", "b">>
P_abc == <<"a", "/", "b", "/", "c">>
P_abx == <<"a", "/", "b", "x">>
P_aSlash == <<"a", "/">>
P_e == <<"e">>
P_d == <<"d">>
P_dSlash == <<"d", "/">>

LeafPaths == {P_a, P_ab, P_abc, P_abx}
RootArgs == {P_a, P_aSlash, P_ab, P_e}
DestArgs == {P_d, P_dSlash}

K1 == <<"k">>
K2 == <<"j">>
EmptyDoc == <<>>
Doc1 == (K1 :> "v")
Doc2 == (K2 :> "v")
Doc3 == (K1 :> "v") @@ (K2 :> "w")
Docs == {Doc1, Doc2, Doc3}

\* len(document): the number of its keys
DocLen(doc) == Cardinality(DOMAIN doc)

\* a store holds documents at leaves only: no leaf lies under another leaf
LeafOnly(S) ==
    \A p, q \in S : p # q => ~IsPrefixSeg(Canon(p), Canon(q))

Stores ==
    UNION {[S -> Docs] : S \in {T \in SUBSET LeafPaths : LeafOnly(T)}}

EmptyStore == <<>>

A1 == "addr1"
A2 == "addr2"
Addrs == {A1, A2}


(***************************************************************************)
(* The store client (lib/VaultClient.py), from the specification.  A store *)
(* is a function from the canonical spelling of a leaf path to its         *)
(* document.                                                               *)
(***************************************************************************)
\* the leaves of the store at or under root that no excluded prefix covers
Under(store, root, excluded) ==
    {p \in DOMAIN store :
        /\ IsPrefixSeg(Canon(root), Canon(p))
        /\ \A i \in DOMAIN excluded :
                ~IsPrefixSeg(Canon(excluded[i]), Canon(p))}

\* VaultClient.secrets_tree_list(root, excluded): the lists it may return.
\* The order of the leaves is not fixed.  A root that is itself a leaf comes
\* back as the root; when such a root is spelled with a trailing "/" the
\* specification does not say whether the client finds it, nor how it spells
\* it: root_as_leaf fixes, for one invocation, which of the three the client
\* does.
RootAsLeafModes == {"not_found", "as_given", "canonical"}

secrets_tree_list(store, root, excluded) ==
    LET u == Under(store, root, excluded) IN
    IF Normalize(root) \in u /\ root # Normalize(root)
    THEN CASE root_as_leaf = "not_found" -> {<<>>}
           [] root_as_leaf = "as_given" -> {<<root>>}
           [] OTHER -> {<<Normalize(root)>>}
    ELSE SeqsOf(u)

\* VaultClient.read(path) and VaultClient.read_secret(path): the document at
\* path, the empty document when there is none
read(store, path) ==
    IF Normalize(path) \in DOMAIN store THEN store[Normalize(path)]
    ELSE EmptyDoc

read_secret(store, path) == read(store, path)

\* VaultClient.write(path, document): overwrite the document at path
write(store, path, doc) == (Normalize(path) :> doc) @@ store

\* VaultClient.delete(path): idempotent
delete(store, path) ==
    [q \in DOMAIN store \ {Normalize(path)} |-> store[q]]

\* VaultManagerKV.connect_to_vault(addr, token): the handle of the store at addr
connect_to_vault(vault_addr, vault_token) == vault_addr

\* utils.keys_exists_in_dict(logger, dict, keys): the keys whose value is
\* missing (None, '' or False, all written "" here)
keys_exists_in_dict(kw, keys) == {k \in keys : kw[k] = ""}

(***************************************************************************)
(* The arguments of one invocation.  None and the empty list are both      *)
(* written <<>>: run() and the handlers only test their truth.             *)
(***************************************************************************)
RootLists == UNION {[1..n -> RootArgs] : n \in 1..MaxRoots}
Excludes == {<<>>, <<P_ab>>}

NoArgs ==
    [copy_path |-> <<>>, copy_secret |-> <<>>, delete |-> <<>>, count |-> <<>>,
     find_duplicates |-> <<>>, secrets_tree |-> <<>>, exclude |-> <<>>,
     vault_addr |-> A1, vault_token |-> "token",
     vault_target_addr |-> A2, vault_target_token |-> "target_token"]

KwArgsSet ==
    {NoArgs}
    \cup {[NoArgs EXCEPT !.copy_path = <<s, d>>, !.vault_target_addr = t] :
            s \in RootArgs, d \in DestArgs, t \in {"", A1, A2}}
    \cup {[NoArgs EXCEPT !.copy_secret = <<s, P_d>>, !.vault_target_addr = t] :
            s \in {P_a, P_ab, P_e}, t \in {"", A1, A2}}
    \cup {[NoArgs EXCEPT !.delete = r] : r \in RootLists}
    \cup {[NoArgs EXCEPT !.count = r, !.exclude = x] :
            r \in RootLists, x \in Excludes}
    \cup {[NoArgs EXCEPT !.find_duplicates = r, !.exclude = x] :
            r \in RootLists, x \in Excludes}
    \cup {[NoArgs EXCEPT !.secrets_tree = r, !.exclude = x] :
            r \in RootLists, x \in Excludes}

\* the branch run() takes: the first argument that is set, in its order
Selected(kw) ==
    IF kw.copy_path # <<>> THEN "copy_path"
    ELSE IF kw.copy_secret # <<>> THEN "copy_secret"
    ELSE IF kw.delete # <<>> THEN "delete"
    ELSE IF kw.count # <<>> THEN "count"
    ELSE IF kw.find_duplicates # <<>> THEN "find_duplicates"
    ELSE IF kw.secrets_tree # <<>> THEN "secrets_tree"
    ELSE "none"

(***************************************************************************)
(* Helpers of the handlers.                                                *)
(***************************************************************************)
\* kv_full[kv] = vault_client.read_secret(kv) for kv in kv_list: a dict in
\* insertion order, a key met again keeps its place
RECURSIVE ReadAll(_, _, _)
ReadAll(kv_list, store, kv_full) ==
    IF kv_list = <<>> THEN kv_full
    ELSE LET kv == Head(kv_list)
             e == [path |-> kv, doc |-> read_secret(store, kv)]
         IN ReadAll(Tail(kv_list), store,
                IF \E i \in DOMAIN kv_full : kv_full[i].path = kv
                THEN [i \in DOMAIN kv_full |->
                        IF kv_full[i].path = kv THEN e ELSE kv_full[i]]
                ELSE Append(kv_full, e))

\* read_from_vault, given the list the store returned
read_from_vault(kv_list, store) == ReadAll(kv_list, store, <<>>)

\* the source client of every handler
SourceClient(kw) == connect_to_vault(kw.vault_addr, kw.vault_token)

\* vault_target_client of kv_copy_path
CopyPathTargetClient(kw) == connect_to_vault(kw.vault_addr, kw.vault_token)

\* vault_target_client of kv_copy_secret
CopySecretTargetClient(kw) == connect_to_vault(kw.vault_addr, kw.vault_token)

\* secret_target_path of push_to_vault
SecretTargetPath(exported_path, secret, target_path) ==
    list_to_string(Split(target_path)
                   \o SliceFrom(Split(secret), Len(Split(exported_path))))

CopyArgKeys ==
    {"vault_addr", "vault_token", "vault_target_addr", "vault_target_token"}
SingleArgKeys == {"vault_addr", "vault_token"}

Raise(e) == /\ pc' = "raised"
            /\ err' = e

\* an AttributeError, which run() catches and logs
Caught(e) == /\ pc' = "done"
             /\ err' = e

(***************************************************************************)
(* The state after construction: the module holds the parsed arguments,    *)
(* the store at vault_addr holds some tree, the store at the target        *)
(* address is empty, and no store call has been made.                      *)
(***************************************************************************)
Init ==
    /\ kwargs \in KwArgsSet
    /\ \E s \in Stores : vault = (A1 :> s) @@ (A2 :> EmptyStore)
    /\ vault0 = vault
    /\ root_as_leaf \in RootAsLeafModes
    /\ pc = "run"
    /\ idx = 1
    /\ exported_kv = <<>>
    /\ pos = 0
    /\ calls = <<>>
    /\ listed = <<>>
    /\ log = <<>>
    /\ err = "none"
    /\ count_dict = <<>>
    /\ total_secrets = 0
    /\ total_kv = 0
    /\ grouped_duplicates = <<>>
    /\ kv_tree = <<>>

Results == <<count_dict, total_secrets, total_kv, grouped_duplicates, kv_tree>>

\* run() with no operation selected: logs, prints the help, returns False
RunNoArgument ==
    /\ pc = "run"
    /\ Selected(kwargs) = "none"
    /\ log' = Append(log, [level |-> "error",
                           msg |-> "One argument should be specified",
                           path |-> <<>>])
    /\ pc' = "done"
    /\ UNCHANGED <<root_as_leaf, kwargs, vault, vault0, idx, exported_kv, pos,
                   calls, listed, err, Results>>

(***************************************************************************)
(* kv_copy_path, up to the call of push_to_vault.                          *)
(***************************************************************************)
\* the singleton test with the leaf compared to the destination root
IsAmbiguousWrongRoot(kv, root) ==
    Len(kv) = 1 /\ kv[1].path = kwargs.copy_path[2]

\* the singleton test of kv_copy_path
IsAmbiguous(kv, root) == Len(kv) = 1 /\ kv[1].path = root

KvCopyPath ==
    /\ pc = "run"
    /\ Selected(kwargs) = "copy_path"
    /\ LET root == kwargs.copy_path[1]
           client == SourceClient(kwargs)
       IN
       IF keys_exists_in_dict(kwargs, CopyArgKeys) # {}
       THEN Raise("ValueError") /\ UNCHANGED <<exported_kv, listed>>
       ELSE \E ok \in BOOLEAN,
               kv_list \in secrets_tree_list(vault[client], root, <<>>) :
            IF ~ok
            THEN Raise("StoreFailure") /\ UNCHANGED <<exported_kv, listed>>
            ELSE LET kv == read_from_vault(kv_list, vault[client]) IN
                 /\ listed' = Append(listed,
                                     [root |-> root, leaves |-> kv_list])
                 /\ exported_kv' = kv
                 /\ IF Len(kv) = 0 THEN Caught("NoPathToCopy")
                    ELSE IF IsAmbiguous(kv, root) THEN Caught("AmbiguousTarget")
                    ELSE pc' = "push" /\ err' = err
    /\ UNCHANGED <<root_as_leaf, kwargs, vault, vault0, idx, pos, calls, log,
                   Results>>

\* "for secret in exported_kv" of push_to_vault is over after n turns
PushLoopDone(n, kv) == n = Len(kv)

\* one turn of the loop of push_to_vault; its last turn returns to
\* kv_copy_path, which logs and ends
PushToVault ==
    /\ pc = "push"
    /\ pos < Len(exported_kv)
    /\ LET secret == exported_kv[pos + 1].path
           doc == exported_kv[pos + 1].doc
           client == CopyPathTargetClient(kwargs)
           secret_target_path ==
               SecretTargetPath(kwargs.copy_path[1], secret,
                                kwargs.copy_path[2])
       IN \E ok \in BOOLEAN :
            IF ok
            THEN /\ vault' = [vault EXCEPT
                                ![client] = write(@, secret_target_path, doc)]
                 /\ calls' = Append(calls, [addr |-> client, kind |-> "write",
                                            path |-> secret_target_path,
                                            doc |-> doc, from |-> secret,
                                            turn |-> idx])
                 /\ pos' = pos + 1
                 /\ pc' = IF PushLoopDone(pos + 1, exported_kv) THEN "done"
                          ELSE "push"
                 /\ err' = err
            ELSE /\ Raise("StoreFailure")
                 /\ UNCHANGED <<vault, calls, pos>>
    /\ UNCHANGED <<root_as_leaf, kwargs, vault0, idx, exported_kv, listed,
                   log, Results>>

(***************************************************************************)
(* kv_copy_secret.                                                         *)
(***************************************************************************)
\* the emptiness test left out: every document read is copied
IsNotValidSecretNever(secret_to_copy) == FALSE

\* "if not len(secret_to_copy)" of kv_copy_secret
IsNotValidSecret(secret_to_copy) == DocLen(secret_to_copy) = 0

KvCopySecret ==
    /\ pc = "run"
    /\ Selected(kwargs) = "copy_secret"
    /\ LET client == SourceClient(kwargs)
           target == CopySecretTargetClient(kwargs)
           secret_to_copy == read(vault[client], kwargs.copy_secret[1])
       IN
       IF keys_exists_in_dict(kwargs, CopyArgKeys) # {}
       THEN Raise("ValueError") /\ UNCHANGED <<vault, calls>>
       ELSE \E readOk \in BOOLEAN, writeOk \in BOOLEAN :
            IF ~readOk
            THEN Raise("StoreFailure") /\ UNCHANGED <<vault, calls>>
            ELSE IF IsNotValidSecret(secret_to_copy)
            THEN Caught("NotValidSecret") /\ UNCHANGED <<vault, calls>>
            ELSE IF ~writeOk
            THEN Raise("StoreFailure") /\ UNCHANGED <<vault, calls>>
            ELSE /\ vault' = [vault EXCEPT
                                ![target] = write(@, kwargs.copy_secret[2],
                                                  secret_to_copy)]
                 /\ calls' = Append(calls, [addr |-> target, kind |-> "write",
                                            path |-> kwargs.copy_secret[2],
                                            doc |-> secret_to_copy,
                                            from |-> kwargs.copy_secret[1],
                                            turn |-> idx])
                 /\ pc' = "done"
                 /\ err' = err
    /\ UNCHANGED <<root_as_leaf, kwargs, vault0, idx, exported_kv, pos,
                   listed, log, Results>>

(***************************************************************************)
(* kv_delete and delete_from_vault.                                        *)
(***************************************************************************)
\* the test inverted
HasSecretsInverted(kv) == Len(kv) = 0

\* "if len(exported_kv)" of kv_delete
HasSecrets(kv) == Len(kv) # 0

\* the state after the body of the loop of kv_delete for root number i
NextRoot(i, roots, loop) ==
    /\ idx' = i + 1
    /\ pc' = IF i = Len(roots) THEN "done" ELSE loop

\* one turn of the loop of kv_delete, up to the call of delete_from_vault
KvDelete ==
    /\ \/ pc = "run" /\ Selected(kwargs) = "delete"
       \/ pc = "delete"
    /\ LET to_delete == kwargs.delete[idx]
           client == SourceClient(kwargs)
       IN
       IF pc = "run" /\ keys_exists_in_dict(kwargs, SingleArgKeys) # {}
       THEN Raise("ValueError")
            /\ UNCHANGED <<idx, exported_kv, pos, listed, log>>
       ELSE \E ok \in BOOLEAN,
               kv_list \in secrets_tree_list(vault[client], to_delete, <<>>) :
            IF ~ok
            THEN Raise("StoreFailure")
                 /\ UNCHANGED <<idx, exported_kv, pos, listed, log>>
            ELSE LET kv == read_from_vault(kv_list, vault[client]) IN
                 /\ listed' = Append(listed,
                                     [root |-> to_delete, leaves |-> kv_list])
                 /\ exported_kv' = kv
                 /\ pos' = 0
                 /\ err' = err
                 /\ IF HasSecrets(kv)
                    THEN pc' = "deleting" /\ UNCHANGED <<idx, log>>
                    ELSE /\ log' = Append(log,
                                      [level |-> "error",
                                       msg |-> "No secrets to delete at",
                                       path |-> to_delete])
                         /\ NextRoot(idx, kwargs.delete, "delete")
    /\ UNCHANGED <<root_as_leaf, kwargs, vault, vault0, calls, Results>>

\* the loop left after its first turn
DeleteLoopDoneEarly(n, kv) == n >= 1

\* "for secret in kv_to_delete" of delete_from_vault is over after n turns
DeleteLoopDone(n, kv) == n = Len(kv)

\* one turn of the loop of delete_from_vault; its last turn returns to the
\* loop of kv_delete
DeleteFromVault ==
    /\ pc = "deleting"
    /\ pos < Len(exported_kv)
    /\ LET secret == exported_kv[pos + 1].path
           client == SourceClient(kwargs)
       IN \E ok \in BOOLEAN :
            IF ok
            THEN /\ vault' = [vault EXCEPT ![client] = delete(@, secret)]
                 /\ calls' = Append(calls, [addr |-> client, kind |-> "delete",
                                            path |-> secret, doc |-> EmptyDoc,
                                            from |-> kwargs.delete[idx],
                                            turn |-> idx])
                 /\ pos' = pos + 1
                 /\ err' = err
                 /\ IF DeleteLoopDone(pos + 1, exported_kv)
                    THEN /\ log' = Append(log,
                                     [level |-> "debug",
                                      msg |-> "Secrets successfully deleted at",
                                      path |-> kwargs.delete[idx]])
                         /\ NextRoot(idx, kwargs.delete, "delete")
                    ELSE UNCHANGED <<pc, idx, log>>
            ELSE /\ Raise("StoreFailure")
                 /\ UNCHANGED <<vault, calls, pos, idx, log>>
    /\ UNCHANGED <<root_as_leaf, kwargs, vault0, exported_kv, listed,
                   Results>>

(***************************************************************************)
(* kv_count.                                                               *)
(***************************************************************************)
\* the secrets counted in place of their keys
KvCountOfSecrets(all_secrets, store) == Len(all_secrets)

RECURSIVE KvCountOf(_, _)
\* kv_count += len(vault_client.read(secret_path)) for each listed secret
KvCountOf(all_secrets, store) ==
    IF all_secrets = <<>> THEN 0
    ELSE DocLen(read(store, Head(all_secrets)))
         + KvCountOf(Tail(all_secrets), store)

\* the entry of count_dict for one root
CountEntry(all_secrets, store) ==
    [secrets_count |-> Len(all_secrets),
     values_count |-> KvCountOf(all_secrets, store)]

\* one turn of the loop of kv_count; the last turn logs the report
KvCount ==
    /\ \/ pc = "run" /\ Selected(kwargs) = "count"
       \/ pc = "count"
    /\ LET path == kwargs.count[idx]
           client == SourceClient(kwargs)
       IN
       IF pc = "run" /\ keys_exists_in_dict(kwargs, SingleArgKeys) # {}
       THEN Raise("ValueError")
            /\ UNCHANGED <<idx, listed, count_dict, total_secrets, total_kv>>
       ELSE \E ok \in BOOLEAN,
               all_secrets \in secrets_tree_list(vault[client], path,
                                                 kwargs.exclude) :
            IF ~ok
            THEN Raise("StoreFailure")
                 /\ UNCHANGED <<idx, listed, count_dict, total_secrets,
                                total_kv>>
            ELSE LET e == CountEntry(all_secrets, vault[client]) IN
                 /\ listed' = Append(listed,
                                     [root |-> path, leaves |-> all_secrets])
                 /\ count_dict' = (path :> e) @@ count_dict
                 /\ total_secrets' = total_secrets + e.secrets_count
                 /\ total_kv' = total_kv + e.values_count
                 /\ err' = err
                 /\ NextRoot(idx, kwargs.count, "count")
    /\ UNCHANGED <<root_as_leaf, kwargs, vault, vault0, exported_kv, pos,
                   calls, log, grouped_duplicates, kv_tree>>

(***************************************************************************)
(* kv_find_duplicates.                                                     *)
(***************************************************************************)
RECURSIVE ListAll(_, _, _)
\* kv_list += vault_client.secrets_tree_list(path, excluded) for each root:
\* the lists that may come out
ListAll(store, roots, excluded) ==
    IF roots = <<>> THEN {<<>>}
    ELSE {h \o t : h \in secrets_tree_list(store, Head(roots), excluded),
                   t \in ListAll(store, Tail(roots), excluded)}

RECURSIVE SetToSeq(_)
\* the keys of a document in the order the dict yields them
SetToSeq(S) ==
    IF S = {} THEN <<>>
    ELSE LET x == CHOOSE y \in S : TRUE IN <<x>> \o SetToSeq(S \ {x})

\* path + ":" + key
Locator(path, key) == path \o <<":">> \o key

\* values_count[value] = [loc], or values_count[value].append(loc)
VcAdd(vc, value, loc) ==
    IF \E i \in DOMAIN vc : vc[i].value = value
    THEN [i \in DOMAIN vc |->
            IF vc[i].value = value
            THEN [vc[i] EXCEPT !.locs = Append(@, loc)]
            ELSE vc[i]]
    ELSE Append(vc, [value |-> value, locs |-> <<loc>>])

RECURSIVE VcDoc(_, _, _, _)
\* the inner loop of the grouping: the keys of one document
VcDoc(vc, path, doc, keys) ==
    IF keys = <<>> THEN vc
    ELSE VcDoc(VcAdd(vc, doc[Head(keys)], Locator(path, Head(keys))),
               path, doc, Tail(keys))

RECURSIVE ValuesCount(_, _)
\* the outer loop of the grouping: the paths of kv_full
ValuesCount(kv_full, vc) ==
    IF kv_full = <<>> THEN vc
    ELSE ValuesCount(Tail(kv_full),
                     VcDoc(vc, Head(kv_full).path, Head(kv_full).doc,
                           SetToSeq(DOMAIN Head(kv_full).doc)))

\* the test off by one: every value met is reported
IsDuplicatedFromOne(e) == Len(e.locs) > 0

\* "if len(values_count[elem]) > 1"
IsDuplicated(e) == Len(e.locs) > 1

\* grouped_duplicates: the location lists of the values met more than once
GroupedDuplicates(vc) ==
    LET sel == SelectSeq(vc, IsDuplicated)
    IN [i \in DOMAIN sel |-> sel[i].locs]

KvFindDuplicates ==
    /\ pc = "run"
    /\ Selected(kwargs) = "find_duplicates"
    /\ LET client == SourceClient(kwargs) IN
       IF keys_exists_in_dict(kwargs, SingleArgKeys) # {}
       THEN Raise("ValueError")
            /\ UNCHANGED <<listed, exported_kv, grouped_duplicates>>
       ELSE \E ok \in BOOLEAN,
               kv_list \in ListAll(vault[client], kwargs.find_duplicates,
                                   kwargs.exclude) :
            IF ~ok
            THEN Raise("StoreFailure")
                 /\ UNCHANGED <<listed, exported_kv, grouped_duplicates>>
            ELSE LET kv_full == read_from_vault(kv_list, vault[client]) IN
                 /\ listed' = Append(listed,
                                     [root |-> <<>>, leaves |-> kv_list])
                 /\ exported_kv' = kv_full
                 /\ grouped_duplicates' =
                        GroupedDuplicates(ValuesCount(kv_full, <<>>))
                 /\ pc' = "done"
                 /\ err' = err
    /\ UNCHANGED <<root_as_leaf, kwargs, vault, vault0, idx, pos, calls, log,
                   count_dict, total_secrets, total_kv, kv_tree>>

(***************************************************************************)
(* kv_secrets_tree.                                                        *)
(***************************************************************************)
\* one turn of the loop of kv_secrets_tree; the last turn logs the tree
KvSecretsTree ==
    /\ \/ pc = "run" /\ Selected(kwargs) = "secrets_tree"
       \/ pc = "secrets_tree"
    /\ LET path == kwargs.secrets_tree[idx]
           client == SourceClient(kwargs)
       IN
       IF pc = "run" /\ keys_exists_in_dict(kwargs, SingleArgKeys) # {}
       THEN Raise("ValueError") /\ UNCHANGED <<idx, listed, kv_tree>>
       ELSE \E ok \in BOOLEAN,
               l \in secrets_tree_list(vault[client], path, kwargs.exclude) :
            IF ~ok
            THEN Raise("StoreFailure") /\ UNCHANGED <<idx, listed, kv_tree>>
            ELSE /\ listed' = Append(listed, [root |-> path, leaves |-> l])
                 /\ kv_tree' = (path :> l) @@ kv_tree
                 /\ err' = err
                 /\ NextRoot(idx, kwargs.secrets_tree, "secrets_tree")
    /\ UNCHANGED <<root_as_leaf, kwargs, vault, vault0, exported_kv, pos,
                   calls, log, count_dict, total_secrets, total_kv,
                   grouped_duplicates>>

(***************************************************************************)
(* The module: one invocation of run().                                    *)
(***************************************************************************)
Next ==
    \/ RunNoArgument
    \/ KvCopyPath
    \/ PushToVault
    \/ KvCopySecret
    \/ KvDelete
    \/ DeleteFromVault
    \/ KvCount
    \/ KvFindDuplicates
    \/ KvSecretsTree

Spec == Init /\ [][Next]_vars

(***************************************************************************)
(* push_to_vault on its own: the method called with any export root, any   *)
(* exported dict and any target path.                                      *)
(***************************************************************************)
ExportedPaths == LeafPaths \cup {P_e}

ExportedDicts ==
    {<<[path |-> p, doc |-> d]>> : p \in ExportedPaths, d \in Docs}
    \cup {kv \in {<<[path |-> p, doc |-> d], [path |-> q, doc |-> e]>> :
                    p \in ExportedPaths, q \in ExportedPaths,
                    d \in Docs, e \in Docs} :
            kv[1].path # kv[2].path}

InitRemap ==
    /\ \E s \in RootArgs, d \in DestArgs :
            kwargs = [NoArgs EXCEPT !.copy_path = <<s, d>>]
    /\ vault = (A1 :> EmptyStore) @@ (A2 :> EmptyStore)
    /\ vault0 = vault
    /\ root_as_leaf = "as_given"
    /\ pc = "push"
    /\ idx = 1
    /\ exported_kv \in ExportedDicts
    /\ pos = 0
    /\ calls = <<>>
    /\ listed = <<>>
    /\ log = <<>>
    /\ err = "none"
    /\ count_dict = <<>>
    /\ total_secrets = 0
    /\ total_kv = 0
    /\ grouped_duplicates = <<>>
    /\ kv_tree = <<>>

NextRemap == PushToVault

SpecRemap == InitRemap /\ [][NextRemap]_vars

(***************************************************************************)
(* Properties.                                                             *)
(***************************************************************************)
Writes == {i \in DOMAIN calls : calls[i].kind = "write"}
Deletes == {i \in DOMAIN calls : calls[i].kind = "delete"}

\* remap of the specification: dest_root followed by the segments of the leaf
\* that come after source_root
Remapped(source_root, dest_root, leaf) ==
    Canon(dest_root) \o SliceFrom(Canon(leaf), Len(Canon(source_root)))

\* C1: Copy Path is suffix-preserving.  Every write of Copy Path goes to
\* dest_root followed by the segments of the source leaf after source_root
\* (paths compared segment-wise), carries the document read at that leaf, and
\* distinct source leaves go to distinct destination paths; for every
\* spelling of the roots, a trailing "/" included.
C1_CopyPathSuffixPreserving ==
    Selected(kwargs) = "copy_path" =>
        /\ \A i \in Writes :
            /\ Canon(calls[i].path)
                 = Remapped(kwargs.copy_path[1], kwargs.copy_path[2],
                            calls[i].from)
            /\ calls[i].doc = read(vault0[kwargs.vault_addr], calls[i].from)
        /\ \A i, j \in Writes :
            calls[i].from # calls[j].from
                => Canon(calls[i].path) # Canon(calls[j].path)

\* C2: with two different store instances, every write of Copy Path and of
\* Copy Secret is made on the store at the target address, and the store at
\* the source address holds after the operation what it held before.
C2_WritesGoToTargetStore ==
    ( /\ Selected(kwargs) \in {"copy_path", "copy_secret"}
      /\ kwargs.vault_target_addr # ""
      /\ kwargs.vault_target_addr # kwargs.vault_addr )
    => /\ \A i \in Writes : calls[i].addr = kwargs.vault_target_addr
       /\ vault[kwargs.vault_addr] = vault0[kwargs.vault_addr]

\* Copy Path has taken its snapshot
Snapshotted == Selected(kwargs) = "copy_path" /\ listed # <<>>

DeleteTurnsDone ==
    IF Selected(kwargs) = "delete" THEN {k \in DOMAIN listed : k < idx} ELSE {}

DeletedInTurn(k) == {calls[i].path : i \in {j \in Deletes : calls[j].turn = k}}

\* C4: Delete Subtree issues deletes only for leaves the listing of that root
\* returned (and writes nothing); once a root is done, a delete was issued
\* for every leaf its listing returned, and listing that root again returns
\* nothing.
C4_DeleteExactlyListed ==
    Selected(kwargs) = "delete" =>
        /\ Writes = {}
        /\ \A i \in Deletes :
            /\ calls[i].addr = kwargs.vault_addr
            /\ calls[i].turn \in DOMAIN listed
            /\ calls[i].path \in Range(listed[calls[i].turn].leaves)
        /\ \A k \in DeleteTurnsDone :
            /\ DeletedInTurn(k) = Range(listed[k].leaves)
            /\ secrets_tree_list(vault[kwargs.vault_addr], kwargs.delete[k],
                                 <<>>) = {<<>>}

C4_Witness ==
    /\ Selected(kwargs) = "delete"
    /\ pc = "done"
    /\ \E k \in DeleteTurnsDone : Cardinality(DeletedInTurn(k)) = 2

\* C5: in Delete Subtree over several roots a store failure under one root
\* does not stop the operation: when the operation has ended, every root of
\* the list has been attempted (idx is the turn the loop was in, or one past
\* the list).
C5_DeleteFailureIsolated ==
    (Selected(kwargs) = "delete" /\ pc \in {"done", "raised"})
        => idx >= Len(kwargs.delete)

NothingToDelete(root) ==
    [level |-> "error", msg |-> "No secrets to delete at", path |-> root]

\* the turns of kv_delete whose listing returned no leaf
EmptyTurns ==
    IF Selected(kwargs) = "delete"
    THEN {k \in DOMAIN listed : listed[k].leaves = <<>>}
    ELSE {}

\* C6: Delete Subtree is idempotent.  A root listed again after its own turn
\* has no leaves; for a root with no leaves no delete is issued, "nothing to
\* delete" is logged once per such turn, nothing is raised and the loop goes
\* on to the next root: without a store failure every root gets its turn.
C6_DeleteIdempotent ==
    Selected(kwargs) = "delete" =>
        /\ \A j, k \in DOMAIN listed :
            (j < k /\ kwargs.delete[j] = kwargs.delete[k])
                => listed[k].leaves = <<>>
        /\ \A k \in EmptyTurns :
            /\ DeletedInTurn(k) = {}
            /\ idx > k
            /\ NothingToDelete(kwargs.delete[k]) \in Range(log)
        /\ Cardinality({i \in DOMAIN log : log[i].level = "error"})
             = Cardinality(EmptyTurns)
        /\ pc = "done" => /\ err = "none"
                          /\ Len(listed) = Len(kwargs.delete)

C6_Witness ==
    /\ Selected(kwargs) = "delete"
    /\ pc = "done"
    /\ Len(kwargs.delete) = 2
    /\ kwargs.delete[1] = kwargs.delete[2]
    /\ listed[1].leaves # <<>>
    /\ listed[2].leaves = <<>>
    /\ NothingToDelete(kwargs.delete[2]) \in Range(log)

RECURSIVE SumKeys(_, _)
\* the number of keys of the documents at a set of paths
SumKeys(paths, store) ==
    IF paths = {} THEN 0
    ELSE LET p == CHOOSE q \in paths : TRUE
         IN Cardinality(DOMAIN read(store, p)) + SumKeys(paths \ {p}, store)

LeavesOfTurn(k) == Range(listed[k].leaves)
SecretsOfTurn(k) == Cardinality(LeavesOfTurn(k))
ValuesOfTurn(k) == SumKeys(LeavesOfTurn(k), vault0[kwargs.vault_addr])

RECURSIVE SumSecrets(_)
\* the leaves of the first n turns
SumSecrets(n) == IF n = 0 THEN 0 ELSE SecretsOfTurn(n) + SumSecrets(n - 1)

RECURSIVE SumValues(_)
\* the keys of the leaves of the first n turns
SumValues(n) == IF n = 0 THEN 0 ELSE ValuesOfTurn(n) + SumValues(n - 1)

\* the leaves a listing of root returned are leaves of the store under root
\* that no excluded prefix covers, and all of them when root is spelled
\* canonically
ListedFaithfully(leaves, root) ==
    LET got == {Normalize(p) : p \in Range(leaves)}
        under == Under(vault0[kwargs.vault_addr], root, kwargs.exclude)
    IN /\ got \subseteq under
       /\ root = Normalize(root) => got = under

\* C8: Count reports, for every requested root, secrets_count = the number of
\* leaves listed under the root after exclusion and values_count = the sum of
\* the numbers of keys of their documents; the totals are the sums of these
\* over the requested roots; Count writes and deletes nothing.
C8_CountReport ==
    Selected(kwargs) = "count" =>
        /\ calls = <<>>
        /\ vault = vault0
        /\ \A k \in DOMAIN listed :
            /\ ListedFaithfully(listed[k].leaves, kwargs.count[k])
            /\ kwargs.count[k] \in DOMAIN count_dict
            /\ count_dict[kwargs.count[k]].secrets_count = SecretsOfTurn(k)
            /\ count_dict[kwargs.count[k]].values_count = ValuesOfTurn(k)
        /\ total_secrets = SumSecrets(Len(listed))
        /\ total_kv = SumValues(Len(listed))
        /\ pc = "done" => /\ Len(listed) = Len(kwargs.count)
                          /\ DOMAIN count_dict = Range(kwargs.count)

C8_Witness ==
    /\ Selected(kwargs) = "count"
    /\ pc = "done"
    /\ Len(kwargs.count) = 2
    /\ kwargs.count[1] # kwargs.count[2]
    /\ kwargs.exclude # <<>>
    /\ Under(vault0[kwargs.vault_addr], P_a, <<>>)
         # Under(vault0[kwargs.vault_addr], P_a, kwargs.exclude)
    /\ total_secrets = 2
    /\ total_kv = 4

\* the (path, key) pairs of the combined snapshot, and the value of each
Combined == IF listed = <<>> THEN {} ELSE Range(listed[1].leaves)
Triples ==
    UNION {{<<p, k>> : k \in DOMAIN read(vault0[kwargs.vault_addr], p)} :
            p \in Combined}
ValueAt(t) == read(vault0[kwargs.vault_addr], t[1])[t[2]]

\* the classes of locators sharing a value
Classes ==
    {{Locator(u[1], u[2]) : u \in {w \in Triples : ValueAt(w) = ValueAt(t)}} :
        t \in Triples}
ExpectedGroups == {c \in Classes : Cardinality(c) >= 2}

\* C9: the Duplicate Detector reports exactly the classes of path:key
\* locators of the combined snapshot that share a value and have two or more
\* members: no group of size one, no locator in two groups or twice in one,
\* whatever the order of the roots and of the listed leaves, and also when
\* the roots overlap or repeat.
C9_DuplicateGroups ==
    (Selected(kwargs) = "find_duplicates" /\ pc = "done") =>
        /\ {Range(g) : g \in Range(grouped_duplicates)} = ExpectedGroups
        /\ Len(grouped_duplicates) = Cardinality(ExpectedGroups)
        /\ \A i \in DOMAIN grouped_duplicates :
            /\ Len(grouped_duplicates[i]) >= 2
            /\ Len(grouped_duplicates[i])
                 = Cardinality(Range(grouped_duplicates[i]))
        /\ \A i, j \in DOMAIN grouped_duplicates :
            i # j => Range(grouped_duplicates[i])
                        \cap Range(grouped_duplicates[j]) = {}

C9_Witness ==
    /\ Selected(kwargs) = "find_duplicates"
    /\ pc = "done"
    /\ Len(listed[1].leaves) > Cardinality(Combined)
    /\ Cardinality(Combined) = 2
    /\ grouped_duplicates # <<>>
    /\ Classes # ExpectedGroups

\* C10: Copy Path never rolls back.  When a write of Copy Path between two
\* different store instances has failed: the leaves before it, and no other,
\* have been written; what was written is in place; no delete was issued;
\* and the source store holds what it held before.
C10_NoRollbackSourceUntouched ==
    ( /\ Snapshotted
      /\ kwargs.vault_target_addr = A2
      /\ pc = "raised" )
    => /\ Deletes = {}
       /\ Len(calls) = pos
       /\ \A i \in DOMAIN calls : calls[i].from = exported_kv[i].path
       /\ \A i \in Writes :
            (\A j \in Writes : j > i => calls[j].path # calls[i].path)
                => read(vault[calls[i].addr], calls[i].path) = calls[i].doc
       /\ vault[kwargs.vault_addr] = vault0[kwargs.vault_addr]


\* the document Copy Secret reads at source_path
SecretRead == read(vault0[kwargs.vault_addr], kwargs.copy_secret[1])

\* C11: Copy Secret reads the document at source_path; when it is empty the
\* operation is rejected and no write is issued; when it is not, the only
\* write issued is one write to dest_path of the document read, and the
\* operation that ends without a store failure has issued exactly that one.
C11_CopySecretOneWrite ==
    Selected(kwargs) = "copy_secret" =>
        /\ Deletes = {}
        /\ Len(calls) <= 1
        /\ \A i \in Writes :
            /\ DocLen(SecretRead) > 0
            /\ calls[i].path = kwargs.copy_secret[2]
            /\ calls[i].doc = SecretRead
        /\ (pc = "done" /\ DocLen(SecretRead) = 0)
            => /\ err = "NotValidSecret"
               /\ calls = <<>>
               /\ vault = vault0
        /\ (pc = "done" /\ DocLen(SecretRead) > 0)
            => /\ err = "none"
               /\ Len(calls) = 1

C11_Witness ==
    /\ Selected(kwargs) = "copy_secret"
    /\ pc = "done"
    /\ err = "NotValidSecret"
    /\ DocLen(SecretRead) = 0
    /\ vault0[kwargs.vault_addr] # EmptyStore
    /\ calls = <<>>

=============================================================================
